---------------------------- MODULE Spec2Model ----------------------------
(***************************************************************************)
(* CryptoVault: the vault engine of main.py (encrypt_file, decrypt_file,   *)
(* list_files, delete_file) and the synchronisation engine of sync.py      *)
(* (VaultSyncManager with the Local provider), as a state machine.         *)
(*                                                                         *)
(* Two vault processes "A" and "B" own one vault directory each and may    *)
(* share one mirror directory.  Every filesystem operation of the code is  *)
(* a read or a write of the maps below; an operation that performs two     *)
(* writes in sequence may be cut between them by an OSError raised by the  *)
(* second one (the input ioerr).  The coordinator of "A" may also run      *)
(* worker threads (_sync_worker), which share its lock with each other but *)
(* not with the foreground thread's own sync() calls.                      *)
(***************************************************************************)
EXTENDS Integers, Sequences, FiniteSets, TLC

\* ------------------------------------------------------------ bounds ----
\* Total number of encrypt_file calls in a run.
MaxEncrypts == 2
\* Total number of other calls (decrypt, delete) and of ciphertext corruptions
\* in a run of the vault on its own.
MaxCalls == 2
\* Total number of other calls (delete, configure, disable, sync) in a run of
\* two vaults and their mirror.
MaxSyncCalls == 3

\* ------------------------------------------------------------ domains ---
Vaults == {"A", "B"}
\* The threads _sync_worker may run in (start_sync_thread makes a new one at
\* each call), all of the coordinator of vault "A".
Workers == {"W1", "W2"}
\* A thread calling sync(): the foreground thread of a vault, named as the
\* vault, or a worker.
Threads == Vaults \cup Workers

VaultOf(t) == IF t \in Vaults THEN t ELSE "A"
\* A user path is <<directory, base name>>.
Paths == {<<"a", "f">>, <<"b", "f">>, <<"a", "g">>}
Passwords == {"p", "q"}
\* secrets.token_bytes(16): the values a draw may return.
Salts == {<<1>>, <<2>>}
\* secrets.token_hex(4): the values a draw may return.
Suffixes == {"00", "01"}
\* datetime.now(): the values a reading of the clock may return.
Times == {1, 2}
\* The mirror directory a Local provider may be given.
SyncDirs == {"D"}

\* Python's None where a string is expected, and where a path or an id is
None == "None"

NoPath == <<>>

NoId == <<>>

\* ------------------------------------------------ maps keyed by name ----
EmptyDir == [x \in {} |-> None]

Put(f, k, val) == [x \in (DOMAIN f) \cup {k} |-> IF x = k THEN val ELSE f[x]]

Remove(f, k) == [x \in (DOMAIN f) \ {k} |-> f[x]]

\* ------------------------------------------------ pure functions --------
\* os.path.basename
Basename(path) == path[2]

\* hashlib.sha256(...).hexdigest(): injective on the strings it is given
\* (collision resistance), and never the string itself.
Sha256(data) == <<"sha256", data>>

\* base64.b64encode / b64decode of the salt
B64Encode(bytes) == <<"b64", bytes>>

\* the salt used as it is stored, without decoding
B64DecodeSkipped(text) == text

B64Decode(text) == text[2]

\* PBKDF2HMAC(SHA256, 32, salt, 100000).derive(password), urlsafe-b64 encoded:
\* a deterministic function of (password, salt), injective on the pairs.
Pbkdf2(password, salt) == <<"key", password, salt>>

\* Fernet(key).encrypt(data): an authenticated token.
FernetEncrypt(key, data) == [key |-> key, data |-> data, intact |-> TRUE]

\* Fernet(key).decrypt(token): the plaintext, or InvalidToken when the token
\* was made under another key or no longer verifies.
InvalidToken == "InvalidToken"

FernetDecrypt(key, token) ==
    IF token.intact /\ token.key = key THEN token.data ELSE InvalidToken

\* str(metadata) and eval(text) of a metadata record
Str(metadata) == <<"repr", metadata>>

Eval(text) == text[2]

\* The texts a metadata file may hold that str(metadata) did not write: one
\* that is not Python ("junk"), the display of a dict without the expected
\* keys ("dict"), and a call expression that removes the user file at a path
\* and has the value None ("call").
BadTexts == {<<"junk", <<>>>>, <<"dict", <<>>>>, <<"call", <<"b", "f">>>>}

\* the text is the display of a dict with the keys save_metadata writes
WellFormed(text) == text[1] = "repr"

\* what eval(text) has done to the user files when it is over
EvalEffect(text, userfiles) ==
    IF text[1] = "call"
    THEN [x \in (DOMAIN userfiles) \ {text[2]} |-> userfiles[x]]
    ELSE userfiles

\* what eval(text), or the subscript of its value that follows, raises when
\* the text is not well formed
EvalRaises(text) ==
    CASE text[1] = "junk" -> "SyntaxError"
      [] text[1] = "dict" -> "KeyError"
      [] text[1] = "call" -> "TypeError"

\* an id without the random suffix
generate_file_id_no_suffix(file_path, timestamp, random_suffix) ==
    Sha256(<<Basename(file_path), timestamp>>)

\* generate_file_id, given the clock reading and the random suffix drawn
generate_file_id(file_path, timestamp, random_suffix) ==
    Sha256(<<Basename(file_path), timestamp, random_suffix>>)

\* a key derived from the salt alone
generate_key_salt_only(password, salt) == Pbkdf2("", salt)

\* generate_key, given the salt (drawn by the caller when salt is None)
generate_key(password, salt) == Pbkdf2(password, salt)

\* VaultSyncManager.providers
Providers == {"s3", "dropbox", "local"}

\* the settings a caller may pass to configure
NoSettings == [sync_dir |-> None]

SettingsChoices == {NoSettings} \cup {[sync_dir |-> d] : d \in SyncDirs}

\* sync_interval of a fresh configuration
DefaultSyncInterval == 60

\* the configuration load_config builds when no file exists
DefaultConfig ==
    [enabled |-> FALSE, provider |-> "local", settings |-> NoSettings,
     last_sync |-> None, sync_interval |-> DefaultSyncInterval]

\* json.dump of a configuration, as save_config writes it: the document's
\* members, a Boolean as true or false, None as null, the settings as the
\* sequence of the members of their object
json_dump(c) ==
    [enabled |-> IF c.enabled THEN "true" ELSE "false",
     provider |-> c.provider,
     settings |-> IF c.settings.sync_dir = None
                  THEN <<>> ELSE <<<<"sync_dir", c.settings.sync_dir>>>>,
     last_sync |-> IF c.last_sync = None THEN "null" ELSE c.last_sync,
     sync_interval |-> c.sync_interval]

\* a reading that takes every non-empty text of enabled for True
json_load_truthy(doc) ==
    [enabled |-> doc.enabled # "",
     provider |-> doc.provider,
     settings |-> IF doc.settings = <<>>
                  THEN NoSettings ELSE [sync_dir |-> doc.settings[1][2]],
     last_sync |-> IF doc.last_sync = "null" THEN None ELSE doc.last_sync,
     sync_interval |-> doc.sync_interval]

\* json.load of a document, as load_config reads it
json_load(doc) ==
    [enabled |-> doc.enabled = "true",
     provider |-> doc.provider,
     settings |-> IF doc.settings = <<>>
                  THEN NoSettings ELSE [sync_dir |-> doc.settings[1][2]],
     last_sync |-> IF doc.last_sync = "null" THEN None ELSE doc.last_sync,
     sync_interval |-> doc.sync_interval]

\* a record naming the directory of the path, not its base name
MetadataRecordDirname(original_path, timestamp, salt, size) ==
    [original_path |-> original_path,
     original_filename |-> original_path[1],
     timestamp |-> timestamp,
     salt |-> B64Encode(salt),
     size |-> size]

\* the record save_metadata writes
MetadataRecord(original_path, timestamp, salt, size) ==
    [original_path |-> original_path,
     original_filename |-> Basename(original_path),
     timestamp |-> timestamp,
     salt |-> B64Encode(salt),
     size |-> size]

\* ------------------------------------------------------------ state -----
VARIABLES
    fs,          \* user files: path -> bytes, for the paths that exist
    files,       \* files[v]: <vault>/files, id -> token
    metadata,    \* metadata[v]: <vault>/metadata, id -> text
    remoteFiles, \* <sync_dir>/files, id -> token
    remoteMeta,  \* <sync_dir>/metadata, id -> text
    config,      \* config[v]: VaultSyncManager.config
    saved,       \* saved[v]: the document in sync_config.json
    sync,        \* sync[t]: the frame of the sync() call of thread t
    worker,      \* worker[w]: where the thread w is in _sync_worker
    sync_lock,   \* the thread holding VaultSyncManager.sync_lock of "A", or None
    last,        \* the outcome of the last step
    hist,        \* what has happened so far (read by the properties only)
    nenc,        \* encrypt_file calls so far
    ncalls       \* other calls so far

vars == <<fs, files, metadata, remoteFiles, remoteMeta, config, saved, sync,
          worker, sync_lock, last, hist, nenc, ncalls>>

\* what the vault engine and a foreground sync() leave alone
threads == <<worker, sync_lock>>

Content1 == <<7>>

Content2 == <<7, 9>>

\* what a call returned, and the error a call raised
Returns(value) == [error |-> None, value |-> value]

Raises(error) == [error |-> error, value |-> <<>>]

NoArgs == [password |-> "", output_path |-> NoPath]

\* what a step leaves in last: the call, its vault, the id it was about, what it
\* returned or raised, and the other arguments it was given
Call(op, v, id, result, args) ==
    [op |-> op, vault |-> v, id |-> id, result |-> result, args |-> args]

Outcome(op, v, id, result) == Call(op, v, id, result, NoArgs)

\* a thread that start_sync_thread has not made yet; wait is the argument of
\* the time.sleep it is in, raised whether a cycle of it has raised
NoThread == [pc |-> "off", wait |-> 0, raised |-> FALSE]

IdleFrame ==
    [pc |-> "idle", settings |-> NoSettings, local_files |-> {}, remote_files |-> {},
     files_to_upload |-> {}, files_to_download |-> {}, uploaded |-> {},
     downloaded |-> {}, disturbed |-> FALSE, quiet |-> FALSE, still |-> FALSE,
     pushed |-> {}, dropped |-> {}]

\* hist.returned[v]: the encrypt_file calls that returned, in order: the id
\*   returned, the arguments, the bytes read, the values drawn, what was written;
\* hist.pristine[v]: nothing but encrypt_file has written to the vault;
\* hist.quiet: the vaults whose last sync() returned undisturbed, with no change
\*   of their collections, their configuration or the mirror since;
\* hist.still: some sync() returned and nothing at all has changed since;
\* hist.pushed[v]: the ids encrypt_file returned in v that were stored in v when
\*   a sync() of v that returned began;
\* hist.dropped[v]: the ids delete_file has removed from v while the mirror held
\*   their blob and their metadata, since the last sync() of v that returned.
InitHist ==
    [returned |-> [v \in Vaults |-> <<>>],
     pristine |-> [v \in Vaults |-> TRUE],
     quiet |-> {},
     still |-> FALSE,
     pushed |-> [v \in Vaults |-> {}],
     dropped |-> [v \in Vaults |-> {}]]

InitVault ==
    /\ fs = [p \in {<<"a", "f">>, <<"b", "f">>} |->
               IF p = <<"a", "f">> THEN Content1 ELSE Content2]
    /\ files = [v \in Vaults |-> EmptyDir]
    /\ metadata = [v \in Vaults |-> EmptyDir]
    /\ remoteFiles = EmptyDir
    /\ remoteMeta = EmptyDir
    /\ sync = [t \in Threads |-> IdleFrame]
    /\ worker = [w \in Workers |-> NoThread]
    /\ sync_lock = None
    /\ last = Outcome("init", "", NoId, Returns(<<>>))
    /\ hist = InitHist
    /\ nenc = 0
    /\ ncalls = 0

\* VaultSyncManager.__init__ and load_config with no sync_config.json
Init ==
    /\ InitVault
    /\ config = [v \in Vaults |-> DefaultConfig]
    /\ saved = [v \in Vaults |-> json_dump(config[v])]


\* a change of the collections of v, seen by hist
LocalChange(h, v) ==
    [h EXCEPT !.quiet = @ \ {v}, !.still = FALSE]

\* a change of the mirror, seen by hist
RemoteChange(h) == [h EXCEPT !.quiet = {}, !.still = FALSE]

\* ------------------------------------------------------------ vault -----
\* encrypt_file writing a blob before it finds that the path does not exist
encrypt_file_unchecked(v, file_path, password, timestamp, random_suffix, salt, timestamp2, ioerr) ==
    /\ nenc' = nenc + 1
    /\ UNCHANGED <<fs, ncalls, remoteFiles, remoteMeta, config, saved, sync>>
    /\ IF file_path \notin DOMAIN fs
       THEN /\ last' = Call("encrypt", v, NoId, Raises("FileNotFoundError"),
                            [password |-> password, file_path |-> file_path])
            /\ files' = [files EXCEPT ![v] =
                          Put(@, generate_file_id(file_path, timestamp, random_suffix),
                              FernetEncrypt(generate_key(password, salt), <<>>))]
            /\ hist' = LocalChange(hist, v)
            /\ UNCHANGED metadata
       ELSE LET file_id == generate_file_id(file_path, timestamp, random_suffix)
                key == generate_key(password, salt)
                data == fs[file_path]
                encrypted_data == FernetEncrypt(key, data)
            IN /\ files' = [files EXCEPT ![v] = Put(@, file_id, encrypted_data)]
               /\ IF ioerr
                  THEN /\ UNCHANGED metadata
                       /\ last' = Call("encrypt", v, NoId, Raises("OSError"),
                                       [password |-> password, file_path |-> file_path])
                       /\ hist' = LocalChange(hist, v)
                  ELSE /\ metadata' = [metadata EXCEPT ![v] =
                              Put(@, file_id,
                                  Str(MetadataRecord(file_path, timestamp2, salt, Len(data))))]
                       /\ last' = Call("encrypt", v, file_id, Returns(file_id),
                                       [password |-> password, file_path |-> file_path])
                       /\ hist' = [LocalChange(hist, v) EXCEPT
                                     !.returned[v] = Append(@,
                                        [id |-> file_id, path |-> file_path,
                                         data |-> data, password |-> password,
                                         timestamp |-> timestamp,
                                         random_suffix |-> random_suffix,
                                         salt |-> salt,
                                         blob |-> files'[v][file_id],
                                         text |-> metadata'[v][file_id]])]

\* CryptoVault.encrypt_file.  timestamp and random_suffix are what
\* generate_file_id reads, salt what generate_key draws, timestamp2 the clock
\* reading of save_metadata; ioerr: save_metadata raises OSError.
encrypt_file(v, file_path, password, timestamp, random_suffix, salt, timestamp2, ioerr) ==
    /\ nenc' = nenc + 1
    /\ UNCHANGED <<fs, ncalls, remoteFiles, remoteMeta, config, saved, sync>>
    /\ IF file_path \notin DOMAIN fs
       THEN /\ last' = Call("encrypt", v, NoId, Raises("FileNotFoundError"),
                            [password |-> password, file_path |-> file_path])
            /\ UNCHANGED <<files, metadata, hist>>
       ELSE LET file_id == generate_file_id(file_path, timestamp, random_suffix)
                key == generate_key(password, salt)
                data == fs[file_path]
                encrypted_data == FernetEncrypt(key, data)
            IN /\ files' = [files EXCEPT ![v] = Put(@, file_id, encrypted_data)]
               /\ IF ioerr
                  THEN /\ UNCHANGED metadata
                       /\ last' = Call("encrypt", v, NoId, Raises("OSError"),
                                       [password |-> password, file_path |-> file_path])
                       /\ hist' = LocalChange(hist, v)
                  ELSE /\ metadata' = [metadata EXCEPT ![v] =
                              Put(@, file_id,
                                  Str(MetadataRecord(file_path, timestamp2, salt, Len(data))))]
                       /\ last' = Call("encrypt", v, file_id, Returns(file_id),
                                       [password |-> password, file_path |-> file_path])
                       /\ hist' = [LocalChange(hist, v) EXCEPT
                                     !.returned[v] = Append(@,
                                        [id |-> file_id, path |-> file_path,
                                         data |-> data, password |-> password,
                                         timestamp |-> timestamp,
                                         random_suffix |-> random_suffix,
                                         salt |-> salt,
                                         blob |-> files'[v][file_id],
                                         text |-> metadata'[v][file_id]])]

\* decrypt_file opening its output before it has verified the token
decrypt_file_output_first(v, file_id, password, output_path) ==
    /\ ncalls' = ncalls + 1
    /\ UNCHANGED <<files, metadata, nenc, remoteFiles, remoteMeta, config, saved,
                   sync, hist>>
    /\ IF file_id \notin DOMAIN files[v] \/ file_id \notin DOMAIN metadata[v]
       THEN /\ last' = Call("decrypt", v, file_id, Raises("FileNotFoundError"),
                            [password |-> password, output_path |-> output_path])
            /\ UNCHANGED fs
       ELSE IF ~WellFormed(metadata[v][file_id])
       THEN /\ last' = Call("decrypt", v, file_id,
                            Raises(EvalRaises(metadata[v][file_id])),
                            [password |-> password, output_path |-> output_path])
            /\ fs' = EvalEffect(metadata[v][file_id], fs)
       ELSE LET args == [password |-> password, output_path |-> output_path]
                meta == Eval(metadata[v][file_id])
                key == generate_key(password, B64Decode(meta.salt))
                decrypted_data == FernetDecrypt(key, files[v][file_id])
                out == IF output_path = NoPath THEN meta.original_path ELSE output_path
            IN IF decrypted_data = InvalidToken
               THEN /\ last' = Call("decrypt", v, file_id, Raises("ValueError"), args)
                    /\ fs' = Put(fs, out, <<>>)
               ELSE /\ fs' = Put(fs, out, decrypted_data)
                    /\ last' = Call("decrypt", v, file_id, Returns(out), args)

\* CryptoVault.decrypt_file.  output_path is a path, or None for the recorded
\* original path.  The metadata text is evaluated (line 68) whatever it is.
decrypt_file(v, file_id, password, output_path) ==
    /\ ncalls' = ncalls + 1
    /\ UNCHANGED <<files, metadata, nenc, remoteFiles, remoteMeta, config, saved,
                   sync, hist>>
    /\ IF file_id \notin DOMAIN files[v] \/ file_id \notin DOMAIN metadata[v]
       THEN /\ last' = Call("decrypt", v, file_id, Raises("FileNotFoundError"),
                            [password |-> password, output_path |-> output_path])
            /\ UNCHANGED fs
       ELSE IF ~WellFormed(metadata[v][file_id])
       THEN /\ last' = Call("decrypt", v, file_id,
                            Raises(EvalRaises(metadata[v][file_id])),
                            [password |-> password, output_path |-> output_path])
            /\ fs' = EvalEffect(metadata[v][file_id], fs)
       ELSE LET args == [password |-> password, output_path |-> output_path]
                meta == Eval(metadata[v][file_id])
                salt == meta.salt
                original_path == meta.original_path
                key == generate_key(password, B64Decode(salt))
                encrypted_data == files[v][file_id]
                decrypted_data == FernetDecrypt(key, encrypted_data)
                out == IF output_path = NoPath THEN original_path ELSE output_path
            IN IF decrypted_data = InvalidToken
               THEN /\ last' = Call("decrypt", v, file_id, Raises("ValueError"), args)
                    /\ UNCHANGED fs
               ELSE /\ fs' = Put(fs, out, decrypted_data)
                    /\ last' = Call("decrypt", v, file_id, Returns(out), args)

\* delete_file removing the metadata record alone
delete_file_metadata_only(v, file_id, ioerr) ==
    /\ ncalls' = ncalls + 1
    /\ UNCHANGED <<fs, nenc, remoteFiles, remoteMeta, config, saved, sync, files>>
    /\ IF file_id \notin DOMAIN files[v] \/ file_id \notin DOMAIN metadata[v]
       THEN /\ last' = Outcome("delete", v, file_id, Raises("FileNotFoundError"))
            /\ UNCHANGED <<metadata, hist>>
       ELSE /\ metadata' = [metadata EXCEPT ![v] = Remove(@, file_id)]
            /\ hist' = [LocalChange(hist, v) EXCEPT !.pristine[v] = FALSE]
            /\ last' = Outcome("delete", v, file_id, Returns(<<>>))

\* delete_file testing the blob alone before it removes
delete_file_blob_tested(v, file_id, ioerr) ==
    /\ ncalls' = ncalls + 1
    /\ UNCHANGED <<fs, nenc, remoteFiles, remoteMeta, config, saved, sync>>
    /\ IF file_id \notin DOMAIN files[v]
       THEN /\ last' = Outcome("delete", v, file_id, Raises("FileNotFoundError"))
            /\ UNCHANGED <<files, metadata, hist>>
       ELSE /\ files' = [files EXCEPT ![v] = Remove(@, file_id)]
            /\ hist' = [LocalChange(hist, v) EXCEPT !.pristine[v] = FALSE]
            /\ IF ioerr \/ file_id \notin DOMAIN metadata[v]
               THEN /\ UNCHANGED metadata
                    /\ last' = Outcome("delete", v, file_id,
                                       IF ioerr THEN Raises("OSError")
                                       ELSE Raises("FileNotFoundError"))
               ELSE /\ metadata' = [metadata EXCEPT ![v] = Remove(@, file_id)]
                    /\ last' = Outcome("delete", v, file_id, Returns(<<>>))

\* CryptoVault.delete_file.  ioerr: the second os.remove raises OSError.
delete_file(v, file_id, ioerr) ==
    /\ ncalls' = ncalls + 1
    /\ UNCHANGED <<fs, nenc, remoteFiles, remoteMeta, config, saved, sync>>
    /\ IF file_id \notin DOMAIN files[v] \/ file_id \notin DOMAIN metadata[v]
       THEN /\ last' = Outcome("delete", v, file_id, Raises("FileNotFoundError"))
            /\ UNCHANGED <<files, metadata, hist>>
       ELSE /\ files' = [files EXCEPT ![v] = Remove(@, file_id)]
            /\ hist' = [LocalChange(hist, v) EXCEPT
                          !.pristine[v] = FALSE,
                          !.dropped[v] = IF /\ ~ioerr
                                            /\ file_id \in DOMAIN remoteFiles
                                            /\ file_id \in DOMAIN remoteMeta
                                         THEN @ \cup {file_id} ELSE @]
            /\ IF ioerr
               THEN /\ UNCHANGED metadata
                    /\ last' = Outcome("delete", v, file_id, Raises("OSError"))
               ELSE /\ metadata' = [metadata EXCEPT ![v] = Remove(@, file_id)]
                    /\ last' = Outcome("delete", v, file_id, Returns(<<>>))

\* list_files keeping one summary for each original file name
list_files_by_name(v) ==
    LET names == {Eval(metadata[v][x]).original_filename : x \in DOMAIN metadata[v]}
        kept == {CHOOSE x \in DOMAIN metadata[v] :
                    Eval(metadata[v][x]).original_filename = n : n \in names}
    IN {[id |-> file_id,
         filename |-> Eval(metadata[v][file_id]).original_filename,
         timestamp |-> Eval(metadata[v][file_id]).timestamp,
         size |-> Eval(metadata[v][file_id]).size] : file_id \in kept}

\* CryptoVault.list_files: one summary per entry of the metadata directory.
list_files(v) ==
    {[id |-> file_id,
      filename |-> Eval(metadata[v][file_id]).original_filename,
      timestamp |-> Eval(metadata[v][file_id]).timestamp,
      size |-> Eval(metadata[v][file_id]).size] : file_id \in DOMAIN metadata[v]}

\* A call of CryptoVault.list_files: the summaries, or what the evaluation of
\* the first text that is not well formed does and raises (os.listdir gives
\* the records in no particular order).
list_files_call(v) ==
    /\ ncalls' = ncalls + 1
    /\ UNCHANGED <<files, metadata, nenc, remoteFiles, remoteMeta, config, saved,
                   sync, hist>>
    /\ IF \A x \in DOMAIN metadata[v] : WellFormed(metadata[v][x])
       THEN /\ last' = Outcome("list", v, NoId, Returns(list_files(v)))
            /\ UNCHANGED fs
       ELSE \E x \in DOMAIN metadata[v] :
               /\ ~WellFormed(metadata[v][x])
               /\ last' = Outcome("list", v, x, Raises(EvalRaises(metadata[v][x])))
               /\ fs' = EvalEffect(metadata[v][x], fs)

\* The metadata file of file_id comes to hold a text that save_metadata did not
\* write (an edit, a truncation, a record planted in the vault or the mirror).
CorruptMetadata(v, file_id, text) ==
    /\ file_id \in DOMAIN metadata[v]
    /\ WellFormed(metadata[v][file_id])
    /\ ncalls' = ncalls + 1
    /\ metadata' = [metadata EXCEPT ![v][file_id] = text]
    /\ last' = Outcome("corrupt", v, file_id, Returns(<<>>))
    /\ hist' = [LocalChange(hist, v) EXCEPT !.pristine[v] = FALSE]
    /\ UNCHANGED <<fs, files, nenc, remoteFiles, remoteMeta, config, saved, sync>>

\* The stored ciphertext of file_id stops verifying (a flipped bit, a
\* truncation): what decrypt_file's except branch is there for.
CorruptBlob(v, file_id) ==
    /\ file_id \in DOMAIN files[v]
    /\ files[v][file_id].intact
    /\ ncalls' = ncalls + 1
    /\ files' = [files EXCEPT ![v][file_id].intact = FALSE]
    /\ last' = Outcome("corrupt", v, file_id, Returns(<<>>))
    /\ hist' = LocalChange(hist, v)
    /\ UNCHANGED <<fs, metadata, nenc, remoteFiles, remoteMeta, config, saved, sync>>

\* ------------------------------------------------------------ sync ------
\* configure storing and saving its arguments before it looks the provider up
configure_unchecked(v, provider, settings) ==
    /\ ncalls' = ncalls + 1
    /\ UNCHANGED <<fs, files, metadata, remoteFiles, remoteMeta, sync, nenc>>
    /\ config' = [config EXCEPT ![v].provider = provider,
                                ![v].settings = settings,
                                ![v].enabled = TRUE]
    /\ saved' = [saved EXCEPT ![v] = json_dump(config'[v])]
    /\ hist' = LocalChange(hist, v)
    /\ last' = Call("configure", v, NoId,
                    IF provider \notin Providers \/ settings.sync_dir = None
                    THEN Raises("ValueError") ELSE Returns(TRUE),
                    [provider |-> provider, settings |-> settings])

\* VaultSyncManager.configure with the Local provider's validate_settings
configure(v, provider, settings) ==
    /\ ncalls' = ncalls + 1
    /\ UNCHANGED <<fs, files, metadata, remoteFiles, remoteMeta, sync, nenc>>
    /\ IF provider \notin Providers
       THEN /\ last' = Call("configure", v, NoId, Raises("ValueError"),
                            [provider |-> provider, settings |-> settings])
            /\ UNCHANGED <<config, saved, hist>>
       ELSE /\ config' = [config EXCEPT ![v].provider = provider,
                                        ![v].settings = settings,
                                        ![v].enabled = TRUE]
            /\ saved' = [saved EXCEPT ![v] = json_dump(config'[v])]
            /\ hist' = LocalChange(hist, v)
            /\ last' = Call("configure", v, NoId,
                            IF settings.sync_dir = None
                            THEN Raises("ValueError") ELSE Returns(TRUE),
                            [provider |-> provider, settings |-> settings])

\* VaultSyncManager.disable
disable(v) ==
    /\ ncalls' = ncalls + 1
    /\ config' = [config EXCEPT ![v].enabled = FALSE]
    /\ saved' = [saved EXCEPT ![v] = json_dump(config'[v])]
    /\ hist' = LocalChange(hist, v)
    /\ last' = Outcome("disable", v, NoId, Returns(TRUE))
    /\ UNCHANGED <<fs, files, metadata, remoteFiles, remoteMeta, sync, nenc>>

\* VaultSyncManager.__init__ on a vault whose sync_config.json exists (every
\* construction after the first): load_config reads the document
load_config(v) ==
    /\ ncalls' = ncalls + 1
    /\ config' = [config EXCEPT ![v] = json_load(saved[v])]
    /\ hist' = IF config' = config THEN hist ELSE LocalChange(hist, v)
    /\ last' = Outcome("load", v, NoId, Returns(<<>>))
    /\ UNCHANGED <<fs, files, metadata, remoteFiles, remoteMeta, saved, sync, nenc>>

\* VaultSyncManager._get_local_files
get_local_files(v) == DOMAIN files[v]

\* LocalSyncProvider.list_files: an unset sync_dir, and a mirror that holds no
\* files directory yet, list as empty
provider_list_files(settings) ==
    IF settings.sync_dir = None THEN {} ELSE DOMAIN remoteFiles

\* the frame of a sync() that raised or returned
Ended(frame) == [frame EXCEPT !.pc = "idle"]

\* every other sync() in progress has seen the mirror change under it
Disturb(frames, v) ==
    [u \in DOMAIN frames |->
        IF u # v /\ frames[u].pc = "run"
        THEN [frames[u] EXCEPT !.disturbed = TRUE] ELSE frames[u]]

\* sync listing every remote id for download, stored locally or not
sync_begin_download_all(t) ==
    LET v == VaultOf(t) IN
    /\ sync[t].pc = "idle"
    /\ ncalls' = ncalls + 1
    /\ UNCHANGED <<fs, files, metadata, remoteFiles, remoteMeta, config, saved,
                   hist, nenc>>
    /\ LET settings == config[v].settings
           local_files == get_local_files(v)
           remote_files == provider_list_files(settings)
       IN /\ sync' = [sync EXCEPT ![t] =
                [pc |-> "run", settings |-> settings,
                 local_files |-> local_files, remote_files |-> remote_files,
                 files_to_upload |-> {f \in local_files : f \notin remote_files},
                 files_to_download |-> remote_files,
                 uploaded |-> {}, downloaded |-> {}, disturbed |-> FALSE,
                 quiet |-> v \in hist.quiet, still |-> hist.still,
                 pushed |-> UNION {hist.pushed[u] : u \in Vaults \ {v}},
                 dropped |-> hist.dropped[v]]]
          /\ last' = Outcome("begin", t, NoId, Returns(<<>>))

\* VaultSyncManager.sync, lines 72-77: the provider, the two listings, the diff
sync_begin(t) ==
    LET v == VaultOf(t) IN
    /\ sync[t].pc = "idle"
    /\ ncalls' = ncalls + 1
    /\ UNCHANGED <<fs, files, metadata, remoteFiles, remoteMeta, config, saved,
                   hist, nenc>>
    /\ IF config[v].provider \notin Providers
       THEN /\ last' = Outcome("sync", t, NoId, Raises("ValueError"))
            /\ UNCHANGED sync
       ELSE LET settings == config[v].settings
                local_files == get_local_files(v)
                remote_files == provider_list_files(settings)
            IN /\ sync' = [sync EXCEPT ![t] =
                     [pc |-> "run", settings |-> settings,
                      local_files |-> local_files, remote_files |-> remote_files,
                      files_to_upload |-> {f \in local_files : f \notin remote_files},
                      files_to_download |-> {f \in remote_files : f \notin local_files},
                      uploaded |-> {}, downloaded |-> {}, disturbed |-> FALSE,
                      quiet |-> v \in hist.quiet, still |-> hist.still,
                      pushed |-> UNION {hist.pushed[u] : u \in Vaults \ {v}},
                      dropped |-> hist.dropped[v]]]
               /\ last' = Outcome("begin", t, NoId, Returns(<<>>))

\* One turn of the upload loop: LocalSyncProvider.upload_file.  ioerr: the
\* write of the remote metadata raises OSError.
sync_upload(t, file_id, ioerr) ==
    LET v == VaultOf(t) IN
    /\ sync[t].pc = "run"
    /\ file_id \in sync[t].files_to_upload \ sync[t].uploaded
    /\ UNCHANGED <<fs, files, metadata, config, saved, nenc, ncalls>>
    /\ IF sync[t].settings.sync_dir = None
       THEN /\ last' = Outcome("sync", t, file_id, Raises("ValueError"))
            /\ sync' = [sync EXCEPT ![t] = Ended(@)]
            /\ UNCHANGED <<remoteFiles, remoteMeta, hist>>
       ELSE IF file_id \notin DOMAIN files[v]
       THEN /\ last' = Outcome("sync", t, file_id, Raises("FileNotFoundError"))
            /\ sync' = [sync EXCEPT ![t] = Ended(@)]
            /\ UNCHANGED <<remoteFiles, remoteMeta, hist>>
       ELSE /\ remoteFiles' = Put(remoteFiles, file_id, files[v][file_id])
            /\ hist' = RemoteChange(hist)
            /\ IF file_id \notin DOMAIN metadata[v] \/ ioerr
               THEN /\ last' = Outcome("sync", t, file_id,
                                       IF file_id \notin DOMAIN metadata[v]
                                       THEN Raises("FileNotFoundError")
                                       ELSE Raises("OSError"))
                    /\ sync' = [Disturb(sync, t) EXCEPT ![t] = Ended(@)]
                    /\ UNCHANGED remoteMeta
               ELSE /\ remoteMeta' = Put(remoteMeta, file_id, metadata[v][file_id])
                    /\ sync' = [Disturb(sync, t) EXCEPT ![t].uploaded = @ \cup {file_id}]
                    /\ last' = Outcome("upload", t, file_id, Returns(<<>>))

\* a download loop that does not wait for the end of the upload loop
sync_download_early(t, file_id, ioerr) ==
    LET v == VaultOf(t) IN
    /\ sync[t].pc = "run"
    /\ file_id \in sync[t].files_to_download \ sync[t].downloaded
    /\ UNCHANGED <<fs, remoteFiles, remoteMeta, config, saved, nenc, ncalls>>
    /\ IF sync[t].settings.sync_dir = None
       THEN /\ last' = Outcome("sync", t, file_id, Raises("ValueError"))
            /\ sync' = [sync EXCEPT ![t] = Ended(@)]
            /\ UNCHANGED <<files, metadata, hist>>
       ELSE IF file_id \notin DOMAIN remoteFiles \/ file_id \notin DOMAIN remoteMeta
       THEN /\ last' = Outcome("sync", t, file_id, Raises("FileNotFoundError"))
            /\ sync' = [sync EXCEPT ![t] = Ended(@)]
            /\ UNCHANGED <<files, metadata, hist>>
       ELSE /\ files' = [files EXCEPT ![v] = Put(@, file_id, remoteFiles[file_id])]
            /\ hist' = [hist EXCEPT !.pristine[v] = FALSE, !.still = FALSE]
            /\ IF ioerr
               THEN /\ last' = Outcome("sync", t, file_id, Raises("OSError"))
                    /\ sync' = [sync EXCEPT ![t] = Ended(@)]
                    /\ UNCHANGED metadata
               ELSE /\ metadata' = [metadata EXCEPT ![v] =
                                      Put(@, file_id, remoteMeta[file_id])]
                    /\ sync' = [sync EXCEPT ![t].downloaded = @ \cup {file_id}]
                    /\ last' = Outcome("download", t, file_id, Returns(<<>>))

\* One turn of the download loop: LocalSyncProvider.download_file.  ioerr: the
\* write of the local metadata raises OSError.
sync_download(t, file_id, ioerr) ==
    LET v == VaultOf(t) IN
    /\ sync[t].pc = "run"
    /\ sync[t].files_to_upload = sync[t].uploaded
    /\ file_id \in sync[t].files_to_download \ sync[t].downloaded
    /\ UNCHANGED <<fs, remoteFiles, remoteMeta, config, saved, nenc, ncalls>>
    /\ IF sync[t].settings.sync_dir = None
       THEN /\ last' = Outcome("sync", t, file_id, Raises("ValueError"))
            /\ sync' = [sync EXCEPT ![t] = Ended(@)]
            /\ UNCHANGED <<files, metadata, hist>>
       ELSE IF file_id \notin DOMAIN remoteFiles \/ file_id \notin DOMAIN remoteMeta
       THEN /\ last' = Outcome("sync", t, file_id, Raises("FileNotFoundError"))
            /\ sync' = [sync EXCEPT ![t] = Ended(@)]
            /\ UNCHANGED <<files, metadata, hist>>
       ELSE /\ files' = [files EXCEPT ![v] = Put(@, file_id, remoteFiles[file_id])]
            /\ hist' = [hist EXCEPT !.pristine[v] = FALSE, !.still = FALSE]
            /\ IF ioerr
               THEN /\ last' = Outcome("sync", t, file_id, Raises("OSError"))
                    /\ sync' = [sync EXCEPT ![t] = Ended(@)]
                    /\ UNCHANGED metadata
               ELSE /\ metadata' = [metadata EXCEPT ![v] =
                                      Put(@, file_id, remoteMeta[file_id])]
                    /\ sync' = [sync EXCEPT ![t].downloaded = @ \cup {file_id}]
                    /\ last' = Outcome("download", t, file_id, Returns(<<>>))

\* sync counting the local files when it returns, not when it began
sync_return_recount(t) ==
    LET v == VaultOf(t) IN
    /\ sync[t].pc = "run"
    /\ sync[t].files_to_upload = sync[t].uploaded
    /\ sync[t].files_to_download = sync[t].downloaded
    /\ sync' = [sync EXCEPT ![t] = Ended(@)]
    /\ last' = Outcome("sync", t, NoId,
                       Returns([uploaded |-> Cardinality(sync[t].files_to_upload),
                                downloaded |-> Cardinality(sync[t].files_to_download),
                                total_remote |-> Cardinality(sync[t].remote_files),
                                total_local |-> Cardinality(get_local_files(v))]))
    /\ hist' = [hist EXCEPT
                  !.quiet = IF sync[t].disturbed THEN @ \ {v} ELSE @ \cup {v},
                  !.still = TRUE,
                  !.pushed[v] = @ \cup {x \in sync[t].local_files :
                                          \E i \in DOMAIN hist.returned[v] :
                                              hist.returned[v][i].id = x},
                  !.dropped[v] = {}]
    /\ UNCHANGED <<fs, files, metadata, remoteFiles, remoteMeta, config, saved,
                   nenc, ncalls>>

\* sync recording last_sync itself when it returns
sync_return_stamps(t) ==
    LET v == VaultOf(t) IN
    /\ sync[t].pc = "run"
    /\ sync[t].files_to_upload = sync[t].uploaded
    /\ sync[t].files_to_download = sync[t].downloaded
    /\ sync' = [sync EXCEPT ![t] = Ended(@)]
    /\ last' = Outcome("sync", t, NoId,
                       Returns([uploaded |-> Cardinality(sync[t].files_to_upload),
                                downloaded |-> Cardinality(sync[t].files_to_download),
                                total_remote |-> Cardinality(sync[t].remote_files),
                                total_local |-> Cardinality(sync[t].local_files)]))
    /\ config' = [config EXCEPT ![v].last_sync = "t1"]
    /\ saved' = [saved EXCEPT ![v] = json_dump(config'[v])]
    /\ hist' = [hist EXCEPT
                  !.quiet = IF sync[t].disturbed THEN @ \ {v} ELSE @ \cup {v},
                  !.still = TRUE,
                  !.pushed[v] = @ \cup {x \in sync[t].local_files :
                                          \E i \in DOMAIN hist.returned[v] :
                                              hist.returned[v][i].id = x},
                  !.dropped[v] = {}]
    /\ UNCHANGED <<fs, files, metadata, remoteFiles, remoteMeta, nenc, ncalls>>

\* VaultSyncManager.sync, lines 93-98: both loops are over, the stats
sync_return(t) ==
    LET v == VaultOf(t) IN
    /\ sync[t].pc = "run"
    /\ sync[t].files_to_upload = sync[t].uploaded
    /\ sync[t].files_to_download = sync[t].downloaded
    /\ sync' = [sync EXCEPT ![t] = Ended(@)]
    /\ last' = Outcome("sync", t, NoId,
                       Returns([uploaded |-> Cardinality(sync[t].files_to_upload),
                                downloaded |-> Cardinality(sync[t].files_to_download),
                                total_remote |-> Cardinality(sync[t].remote_files),
                                total_local |-> Cardinality(sync[t].local_files)]))
    /\ hist' = [hist EXCEPT
                  !.quiet = IF sync[t].disturbed THEN @ \ {v} ELSE @ \cup {v},
                  !.still = TRUE,
                  !.pushed[v] = @ \cup {x \in sync[t].local_files :
                                          \E i \in DOMAIN hist.returned[v] :
                                              hist.returned[v][i].id = x},
                  !.dropped[v] = {}]
    /\ UNCHANGED <<fs, files, metadata, remoteFiles, remoteMeta, config, saved,
                   nenc, ncalls>>

\* ------------------------------------------------------------ inputs ----
\* The ids a caller may name: those in either directory of the vault, and one
\* that was never returned.
UnknownId == Sha256(<<"none", 0, "ff">>)

NameableIds(v) == (DOMAIN files[v]) \cup (DOMAIN metadata[v]) \cup {UnknownId}

OutputPaths == {NoPath, <<"a", "g">>}

\* ------------------------------------------- the vault on its own -------
Next ==
    /\ UNCHANGED threads
    /\ \E v \in {"A"} :
        \/ /\ nenc < MaxEncrypts
           /\ \E file_path \in Paths, password \in Passwords, timestamp \in Times,
                 random_suffix \in Suffixes, salt \in Salts, ioerr \in BOOLEAN :
                  \E timestamp2 \in {t \in Times : t >= timestamp} :
                     encrypt_file(v, file_path, password, timestamp, random_suffix,
                                  salt, timestamp2, ioerr)
        \/ /\ ncalls < MaxCalls
           /\ \/ \E file_id \in NameableIds(v), password \in Passwords,
                    output_path \in OutputPaths :
                     decrypt_file(v, file_id, password, output_path)
              \/ \E file_id \in NameableIds(v), ioerr \in BOOLEAN :
                     delete_file(v, file_id, ioerr)
              \/ \E file_id \in NameableIds(v) : CorruptBlob(v, file_id)

Spec == Init /\ [][Next]_vars

\* ------------------------------------------- two vaults and a mirror ----
\* A sync_config.json left by an earlier run: what configure wrote.
ConfiguredConfig == [DefaultConfig EXCEPT !.enabled = TRUE,
                                          !.settings = [sync_dir |-> "D"]]

\* The clock readings of the runs with a mirror.
MirrorTimes == {1}

\* The user files encrypted in the runs with a mirror: two of the same base
\* name and of different content.
MirrorPaths == {<<"a", "f">>, <<"b", "f">>}

InitSync ==
    /\ InitVault
    /\ config \in [Vaults -> {DefaultConfig, ConfiguredConfig}]
    /\ saved = [v \in Vaults |-> json_dump(config[v])]

\* The calls of vault v's user, who waits for each call to return.
UserCall(v) ==
    /\ sync[v].pc = "idle"
    /\ UNCHANGED threads
    /\ \/ /\ nenc < MaxEncrypts
          /\ \E file_path \in MirrorPaths, timestamp \in MirrorTimes,
                random_suffix \in Suffixes, ioerr \in BOOLEAN :
                encrypt_file(v, file_path, "p", timestamp, random_suffix,
                             <<1>>, timestamp, ioerr)
       \/ /\ ncalls < MaxSyncCalls
          /\ \/ \E file_id \in NameableIds(v), ioerr \in BOOLEAN :
                    delete_file(v, file_id, ioerr)
             \/ \E provider \in {"local", "ftp"}, settings \in SettingsChoices :
                    configure(v, provider, settings)
             \/ disable(v)
             \/ sync_begin(v)

\* The steps of a sync() call of v that is in progress.
SyncStep(v) ==
    /\ UNCHANGED threads
    /\ \/ \E file_id \in sync[v].files_to_upload, ioerr \in BOOLEAN :
              sync_upload(v, file_id, ioerr)
       \/ \E file_id \in sync[v].files_to_download, ioerr \in BOOLEAN :
              sync_download(v, file_id, ioerr)
       \/ sync_return(v)

SyncNext == \E v \in Vaults : UserCall(v) \/ SyncStep(v)

SyncSpec == InitSync /\ [][SyncNext]_vars

\* ------------------------------------------------------------ worker ----
\* int(time.time()): the values a reading may return
Epochs == {"t1", "t2"}

\* VaultSyncManager.start_sync_thread: w is the thread a call makes
start_sync_thread(v, w) ==
    /\ ncalls' = ncalls + 1
    /\ UNCHANGED <<fs, files, metadata, remoteFiles, remoteMeta, config, saved,
                   sync, sync_lock, hist, nenc>>
    /\ IF ~config[v].enabled
       THEN /\ last' = Outcome("start", v, NoId, Returns(FALSE))
            /\ UNCHANGED worker
       ELSE /\ worker[w].pc = "off"
            /\ worker' = [worker EXCEPT ![w].pc = "wait"]
            /\ last' = Outcome("start", v, NoId, Returns(TRUE))

\* _sync_worker, line 62: with self.sync_lock, entered
sync_worker_acquire(w) ==
    /\ worker[w].pc = "wait"
    /\ sync_lock = None
    /\ sync_lock' = w
    /\ worker' = [worker EXCEPT ![w].pc = "locked"]
    /\ last' = Outcome("acquire", w, NoId, Returns(<<>>))
    /\ UNCHANGED <<fs, files, metadata, remoteFiles, remoteMeta, config, saved,
                   sync, hist, nenc, ncalls>>

\* _sync_worker ending its loop at the first exception
sync_worker_after_stop(w) ==
    IF last'.op = "sync" /\ last'.result.error # None
    THEN /\ sync_lock' = None
         /\ worker' = [worker EXCEPT ![w] =
                         [pc |-> "off", wait |-> 0, raised |-> TRUE]]
    ELSE /\ UNCHANGED sync_lock
         /\ worker' = [worker EXCEPT ![w].pc =
                         IF last'.op = "sync" THEN "stamp" ELSE "cycle"]

\* _sync_worker, lines 60-69, around a step of self.sync(): an exception leaves
\* the with block (the lock is released), is printed by the except clause, and
\* the thread sleeps; a return leads to line 64 with the lock held.
sync_worker_after(w) ==
    IF last'.op = "sync" /\ last'.result.error # None
    THEN /\ sync_lock' = None
         /\ worker' = [worker EXCEPT ![w] =
                         [pc |-> "sleep",
                          wait |-> config[VaultOf(w)].sync_interval,
                          raised |-> TRUE]]
    ELSE /\ UNCHANGED sync_lock
         /\ worker' = [worker EXCEPT ![w].pc =
                         IF last'.op = "sync" THEN "stamp" ELSE "cycle"]

\* _sync_worker, line 63: self.sync() is called
sync_worker_call(w) ==
    /\ worker[w].pc = "locked"
    /\ sync_begin(w)
    /\ sync_worker_after(w)

\* _sync_worker, line 63: self.sync() runs
sync_worker_step(w) ==
    /\ worker[w].pc = "cycle"
    /\ \/ \E file_id \in sync[w].files_to_upload, ioerr \in BOOLEAN :
              sync_upload(w, file_id, ioerr)
       \/ \E file_id \in sync[w].files_to_download, ioerr \in BOOLEAN :
              sync_download(w, file_id, ioerr)
       \/ sync_return(w)
    /\ sync_worker_after(w)

\* _sync_worker enabling the coordinator when it records last_sync
sync_worker_stamp_enables(w, now) ==
    /\ worker[w].pc = "stamp"
    /\ config' = [config EXCEPT ![VaultOf(w)].last_sync = now,
                                ![VaultOf(w)].enabled = TRUE]
    /\ saved' = [saved EXCEPT ![VaultOf(w)] = json_dump(config'[VaultOf(w)])]
    /\ sync_lock' = None
    /\ worker' = [worker EXCEPT ![w].pc = "sleep",
                                ![w].wait = config[VaultOf(w)].sync_interval]
    /\ last' = Outcome("stamp", w, NoId, Returns(<<>>))
    /\ UNCHANGED <<fs, files, metadata, remoteFiles, remoteMeta, sync, hist,
                   nenc, ncalls>>

\* _sync_worker, lines 64-65 and the end of the with block: last_sync is
\* written and saved, the lock released, and the thread sleeps
sync_worker_stamp(w, now) ==
    /\ worker[w].pc = "stamp"
    /\ config' = [config EXCEPT ![VaultOf(w)].last_sync = now]
    /\ saved' = [saved EXCEPT ![VaultOf(w)] = json_dump(config'[VaultOf(w)])]
    /\ sync_lock' = None
    /\ worker' = [worker EXCEPT ![w].pc = "sleep",
                                ![w].wait = config[VaultOf(w)].sync_interval]
    /\ last' = Outcome("stamp", w, NoId, Returns(<<>>))
    /\ UNCHANGED <<fs, files, metadata, remoteFiles, remoteMeta, sync, hist,
                   nenc, ncalls>>

\* _sync_worker, line 69: time.sleep returns, and the loop goes round
sync_worker_wake(w) ==
    /\ worker[w].pc = "sleep"
    /\ worker' = [worker EXCEPT ![w].pc = "wait", ![w].wait = 0]
    /\ last' = Outcome("wake", w, NoId, Returns(<<>>))
    /\ UNCHANGED <<fs, files, metadata, remoteFiles, remoteMeta, config, saved,
                   sync, sync_lock, hist, nenc, ncalls>>

\* ------------------------------------- one coordinator and its threads ---
\* Total number of encrypt_file calls in a run with worker threads.
MaxWorkerEncrypts == 1
\* Total number of other calls, sync() calls of the workers included, in a run
\* with worker threads.
MaxWorkerCalls == 5

\* The calls of the foreground thread of "A", which waits for each to return.
ForegroundCall ==
    /\ sync["A"].pc = "idle"
    /\ \/ /\ nenc < MaxWorkerEncrypts
          /\ \E ioerr \in BOOLEAN :
                encrypt_file("A", <<"a", "f">>, "p", 1, "00", <<1>>, 1, ioerr)
          /\ UNCHANGED threads
       \/ /\ ncalls < MaxWorkerCalls
          /\ \/ \E file_id \in DOMAIN files["A"] :
                    delete_file("A", file_id, FALSE) /\ UNCHANGED threads
             \/ \E settings \in SettingsChoices :
                    configure("A", "local", settings) /\ UNCHANGED threads
             \/ disable("A") /\ UNCHANGED threads
             \/ load_config("A") /\ UNCHANGED threads
             \/ sync_begin("A") /\ UNCHANGED threads
             \/ \E w \in Workers : start_sync_thread("A", w)

\* The steps of a worker thread.
WorkerStep(w) ==
    \/ sync_worker_acquire(w)
    \/ ncalls < MaxWorkerCalls /\ sync_worker_call(w)
    \/ sync_worker_step(w)
    \/ \E now \in Epochs : sync_worker_stamp(w, now)
    \/ sync_worker_wake(w)

WorkerNext ==
    \/ ForegroundCall
    \/ SyncStep("A")
    \/ \E w \in Workers : WorkerStep(w)

WorkerSpec == Init /\ [][WorkerNext]_vars

\* ------------------------------------- a vault with altered metadata ----
\* Total number of encrypt_file calls in a run with altered metadata.
MaxMetaEncrypts == 2
\* Total number of other calls and of alterations in such a run.
MaxMetaCalls == 3

MetaNext ==
    /\ UNCHANGED threads
    /\ \/ /\ nenc < MaxMetaEncrypts
          /\ \E file_path \in {<<"a", "f">>, <<"b", "f">>}, ioerr \in BOOLEAN :
                encrypt_file("A", file_path, "p", 1, "00", <<1>>, 1, ioerr)
       \/ /\ ncalls < MaxMetaCalls
          /\ \/ \E file_id \in NameableIds("A"), password \in Passwords,
                   output_path \in OutputPaths :
                    decrypt_file("A", file_id, password, output_path)
             \/ list_files_call("A")
             \/ \E file_id \in DOMAIN metadata["A"], text \in BadTexts :
                    CorruptMetadata("A", file_id, text)

MetaSpec == Init /\ [][MetaNext]_vars

\* ------------------------------------------------------------ claims ----
\* the encrypt_file calls of v that returned
Returned(v) == {hist.returned[v][i] : i \in DOMAIN hist.returned[v]}

\* the vault still holds, under c.id, exactly what the call c wrote
Holds(v, c) ==
    /\ c.id \in DOMAIN files[v]
    /\ c.id \in DOMAIN metadata[v]
    /\ files[v][c.id] = c.blob
    /\ metadata[v][c.id] = c.text

\* the last step was a decrypt_file call on what the call c wrote
DecryptOf(c) ==
    /\ last.op = "decrypt"
    /\ c \in Returned(last.vault)
    /\ c.id = last.id
    /\ Holds(last.vault, c)

\* C1: decrypt_file on what encrypt_file(F, P) wrote, with the password P,
\* succeeds, returns the output path it was given (the recorded original path
\* when none was given), and the bytes at that path are those encrypt_file read.
C1_RoundTrip ==
    \A v \in Vaults : \A c \in Returned(v) :
        (DecryptOf(c) /\ last.vault = v /\ last.args.password = c.password)
        => /\ last.result = Returns(IF last.args.output_path = NoPath
                                     THEN c.path ELSE last.args.output_path)
           /\ last.result.value \in DOMAIN fs
           /\ fs[last.result.value] = c.data

\* C1 happens: the two-byte file, encrypted, was decrypted into a path that did
\* not exist before.
C1_Witness ==
    \E c \in Returned("A") :
        /\ DecryptOf(c)
        /\ last.args.password = c.password
        /\ c.data = Content2
        /\ last.args.output_path = <<"a", "g">>
        /\ last.result = Returns(<<"a", "g">>)
        /\ fs[<<"a", "g">>] = Content2

\* C2: decrypt_file on what encrypt_file(F, P) wrote fails with ValueError for
\* every password other than P; and with ValueError too, whatever the
\* password, once the stored ciphertext no longer verifies.
C2_WrongPassword ==
    /\ \A v \in Vaults : \A c \in Returned(v) :
          (DecryptOf(c) /\ last.vault = v /\ last.args.password # c.password)
          => last.result = Raises("ValueError")
    /\ (/\ last.op = "decrypt"
        /\ last.id \in DOMAIN files[last.vault]
        /\ last.id \in DOMAIN metadata[last.vault]
        /\ ~files[last.vault][last.id].intact)
       => last.result = Raises("ValueError")

\* C2 happens: a decrypt_file with another password than the one of the
\* encryption has raised ValueError.
C2_Witness ==
    \E c \in Returned("A") :
        /\ DecryptOf(c)
        /\ last.args.password # c.password
        /\ last.result = Raises("ValueError")

\* the step is a decrypt_file call that raised
DecryptFailed ==
    /\ ncalls' = ncalls + 1
    /\ last'.op = "decrypt"
    /\ last'.result.error # None

\* C3: a decrypt_file call that raises writes no user file and leaves the blob
\* and metadata collections of every vault as they were.
C3_FailedDecryptWritesNothing ==
    [][DecryptFailed => (fs' = fs /\ files' = files /\ metadata' = metadata)]_vars

\* C3 happens: a decrypt_file into a path that does not exist has raised
\* ValueError on a stored record, and the path still does not exist.
C3_Witness ==
    /\ last.op = "decrypt"
    /\ last.result = Raises("ValueError")
    /\ last.id \in DOMAIN files[last.vault]
    /\ last.args.output_path = <<"a", "g">>
    /\ <<"a", "g">> \notin DOMAIN fs

\* the step is a delete_file call that returned
DeleteReturned ==
    /\ ncalls' = ncalls + 1
    /\ last'.op = "delete"
    /\ last'.result.error = None

\* C5: when delete_file(id) returns, neither the blob nor the metadata record
\* of id exists; and a decrypt_file(id, password) that follows raises
\* FileNotFoundError, whatever the password and the output path.
C5_DeleteRemovesBoth ==
    [][/\ DeleteReturned =>
            /\ last'.id \notin DOMAIN files'[last'.vault]
            /\ last'.id \notin DOMAIN metadata'[last'.vault]
       /\ \A password \in Passwords, output_path \in OutputPaths :
            (/\ last.op = "delete"
             /\ last.result.error = None
             /\ decrypt_file(last.vault, last.id, password, output_path))
            => last'.result = Raises("FileNotFoundError")]_vars

\* C5 happens: a delete_file of a stored pair has returned.
C5_Witness ==
    /\ last.op = "delete"
    /\ last.result.error = None
    /\ \E c \in Returned(last.vault) : c.id = last.id
    /\ last.id \notin DOMAIN files[last.vault]
    /\ last.id \notin DOMAIN metadata[last.vault]

\* the ids of the summaries list_files returns
ListedIds(v) == {summary.id : summary \in list_files(v)}

\* C6, as claimed: in a vault that only encrypt_file has written to, list_files
\* returns as many summaries as encrypt_file calls have returned, and their ids
\* are the ids returned.
C6_AsClaimed ==
    \A v \in Vaults :
        hist.pristine[v] =>
            /\ Cardinality(list_files(v)) = Len(hist.returned[v])
            /\ ListedIds(v) = {c.id : c \in Returned(v)}

\* C6, amended: in a vault that only encrypt_file has written to, list_files
\* returns one summary for each distinct id returned, and no other: N
\* summaries after N calls that returned N different ids.
C6_ListMatchesReturnedIds ==
    \A v \in Vaults :
        hist.pristine[v] =>
            /\ Cardinality(list_files(v)) = Cardinality({c.id : c \in Returned(v)})
            /\ ListedIds(v) = {c.id : c \in Returned(v)}

\* C6 happens: two calls have returned two ids, and both are listed.
C6_Witness ==
    /\ hist.pristine["A"]
    /\ Len(hist.returned["A"]) = 2
    /\ hist.returned["A"][1].id # hist.returned["A"][2].id
    /\ Cardinality(list_files("A")) = 2

\* the step is an encrypt_file call that returned
EncryptReturned ==
    /\ nenc' = nenc + 1
    /\ last'.op = "encrypt"
    /\ last'.result.error = None

\* the salts of the metadata records of v
StoredSalts(v) == {Eval(metadata[v][x]).salt : x \in DOMAIN metadata[v]}

\* C7, as claimed: the id an encrypt_file call returns is the id of no blob and
\* no metadata record stored before the call, and its salt is the salt of no
\* record stored before the call.
C7_AsClaimed ==
    [][EncryptReturned =>
         /\ last'.id \notin DOMAIN files[last'.vault]
         /\ last'.id \notin DOMAIN metadata[last'.vault]
         /\ Eval(metadata'[last'.vault][last'.id]).salt \notin StoredSalts(last'.vault)]_vars

\* what generate_file_id hashed in the call c
Hashed(c) == <<Basename(c.path), c.timestamp, c.random_suffix>>

\* C7, amended: two encrypt_file calls that returned have different ids
\* whenever the base name, the clock reading or the random suffix of one
\* differs from the other's, whatever the content and the password; ids and
\* salts are draws, and equal draws are not excluded.
C7_DistinctDrawsDistinctIds ==
    \A v \in Vaults :
        \A i, j \in DOMAIN hist.returned[v] :
            Hashed(hist.returned[v][i]) # Hashed(hist.returned[v][j])
            => hist.returned[v][i].id # hist.returned[v][j].id

\* C7 happens: the same file encrypted twice with the same password, under two
\* different ids and two different salts, both stored.
C7_Witness ==
    /\ Len(hist.returned["A"]) = 2
    /\ LET c1 == hist.returned["A"][1]
           c2 == hist.returned["A"][2]
       IN /\ c1.path = c2.path
          /\ c1.password = c2.password
          /\ c1.data = c2.data
          /\ c1.id # c2.id
          /\ c1.salt # c2.salt
          /\ Holds("A", c1)
          /\ Holds("A", c2)

\* C4, as claimed: whenever no call is in progress in a vault, the ids with a
\* blob in it are the ids with a metadata record in it.
C4_PairInvariant ==
    \A v \in Vaults :
        sync[v].pc = "idle" => DOMAIN files[v] = DOMAIN metadata[v]

\* the last step was the return of a sync() call of v
SyncReturned(v) ==
    /\ last.op = "sync"
    /\ last.vault = v
    /\ last.result.error = None

\* C8, as claimed: when a sync() of a vault with a mirror directory returns,
\* the vault lists, and holds as blob and as metadata, every id that encrypt_file returned in the other
\* vault and that was stored there when a sync() of that vault, returned
\* before this one began, had begun.
C8_AsClaimed ==
    \A v \in Vaults :
        (SyncReturned(v) /\ sync[v].settings.sync_dir # None) =>
            /\ sync[v].pushed \subseteq ListedIds(v)
            /\ sync[v].pushed \subseteq DOMAIN files[v]
            /\ sync[v].pushed \subseteq DOMAIN metadata[v]

\* C9, as claimed: a sync() of a vault with a mirror directory that begins when
\* some sync() has returned and nothing has changed since, in either vault or
\* in the mirror, has nothing to upload and nothing to download.
C9_AsClaimed ==
    \A v \in Vaults :
        (sync[v].pc = "run" /\ sync[v].still /\ sync[v].settings.sync_dir # None)
        => (sync[v].files_to_upload = {} /\ sync[v].files_to_download = {})

\* the step is a step of a sync() call of v
SyncStepOf(v) == last'.vault = v /\ sync'[v] # sync[v]

\* C9, amended: a sync() of a vault that begins when the last sync() of the
\* same vault has returned, with no change of the mirror since that one began
\* and no change of the vault or of its configuration since it returned, has
\* nothing to upload and nothing to download, writes to no collection, and
\* returns uploaded = 0 and downloaded = 0.
C9_SecondSyncIsNoOp ==
    [][\A v \in Vaults :
         (SyncStepOf(v) /\ sync'[v].quiet)
         => /\ sync'[v].files_to_upload = {}
            /\ sync'[v].files_to_download = {}
            /\ UNCHANGED <<files, metadata, remoteFiles, remoteMeta>>
            /\ last'.op \in {"begin", "sync"}
            /\ last'.op = "sync"
               => /\ last'.result.error = None
                  /\ last'.result.value.uploaded = 0
                  /\ last'.result.value.downloaded = 0]_vars

\* C9 happens: a second sync() of a vault that holds a file, on a mirror that
\* holds it too, has returned.
C9_Witness ==
    \E v \in Vaults :
        /\ SyncReturned(v)
        /\ sync[v].quiet
        /\ sync[v].local_files # {}
        /\ sync[v].remote_files = sync[v].local_files
        /\ last.result.value.uploaded = 0
        /\ last.result.value.downloaded = 0

\* C10: the upload list of a sync() is its local listing less its remote
\* listing, its download list the remote listing less the local one; when it
\* returns every id of the one has been uploaded and every id of the other
\* downloaded, the stats are the sizes of the two lists and of the two
\* listings, total_local + downloaded = total_remote + uploaded, and, if no
\* other process wrote to the mirror meanwhile, the ids stored locally and
\* the ids the mirror lists are both the union of the two listings.
C10_DiffAndStats ==
    \A v \in Vaults :
        LET frame == sync[v]
            local == frame.local_files
            remote == frame.remote_files
        IN /\ frame.pc = "run" =>
                /\ frame.files_to_upload = local \ remote
                /\ frame.files_to_download = remote \ local
                /\ frame.uploaded \subseteq frame.files_to_upload
                /\ frame.downloaded \subseteq frame.files_to_download
           /\ SyncReturned(v) =>
                /\ frame.uploaded = local \ remote
                /\ frame.downloaded = remote \ local
                /\ frame.uploaded \subseteq (DOMAIN remoteFiles) \cap (DOMAIN remoteMeta)
                /\ frame.downloaded \subseteq (DOMAIN files[v]) \cap (DOMAIN metadata[v])
                /\ last.result.value.uploaded = Cardinality(local \ remote)
                /\ last.result.value.downloaded = Cardinality(remote \ local)
                /\ last.result.value.total_local = Cardinality(local)
                /\ last.result.value.total_remote = Cardinality(remote)
                /\ last.result.value.total_local + last.result.value.downloaded
                   = last.result.value.total_remote + last.result.value.uploaded
                /\ ~frame.disturbed =>
                      /\ get_local_files(v) = local \cup remote
                      /\ provider_list_files(frame.settings) = local \cup remote

\* C10 happens: a sync() that had one id to upload and one to download has
\* returned.
C10_Witness ==
    \E v \in Vaults :
        /\ SyncReturned(v)
        /\ last.result.value.uploaded = 1
        /\ last.result.value.downloaded = 1
        /\ Cardinality(get_local_files(v)) = 2

\* C11, as claimed: no step of a sync() call removes a blob or a metadata
\* record, in the vault or in the mirror; and when a sync() of a vault returns,
\* every id that delete_file had removed from the vault while the mirror held
\* it, and that the mirror listed when this sync() began, is in the vault again
\* with its blob and its metadata record.
C11_AsClaimed ==
    [][\A v \in Vaults :
         /\ SyncStepOf(v) =>
              /\ DOMAIN files[v] \subseteq DOMAIN files'[v]
              /\ DOMAIN metadata[v] \subseteq DOMAIN metadata'[v]
              /\ DOMAIN remoteFiles \subseteq DOMAIN remoteFiles'
              /\ DOMAIN remoteMeta \subseteq DOMAIN remoteMeta'
         /\ (SyncStepOf(v) /\ last'.op = "sync" /\ last'.result.error = None) =>
              \A x \in sync'[v].dropped \cap sync'[v].remote_files :
                  x \in DOMAIN files'[v] /\ x \in DOMAIN metadata'[v]]_vars

\* C12, as claimed: a configure call whose provider is known and that raises
\* (validate_settings failed) leaves enabled, provider and settings as they
\* were, in memory and in sync_config.json.
C12_AsClaimed ==
    [][\A v \in Vaults, provider \in Providers, settings \in SettingsChoices :
         (configure(v, provider, settings) /\ last'.result.error # None)
         => /\ config'[v].enabled = config[v].enabled
            /\ config'[v].provider = config[v].provider
            /\ config'[v].settings = config[v].settings
            /\ saved'[v] = saved[v]]_vars

\* the threads of the coordinator of v that are between the diff of a sync()
\* call and its last transfer
InSync(v) == {t \in Threads : VaultOf(t) = v /\ sync[t].pc = "run"}

\* C13, as claimed: at no time are two sync() calls of the same coordinator,
\* of two workers or of a worker and the foreground thread, both between
\* their diff and their last transfer.
C13_AsClaimed == \A v \in Vaults : Cardinality(InSync(v)) <= 1

\* C14, as claimed: a worker enters a new cycle (takes the lock to call
\* sync()) only while the coordinator is enabled.
C14_AsClaimed ==
    [][\A w \in Workers :
         (worker[w].pc = "wait" /\ worker'[w].pc = "locked")
         => config[VaultOf(w)].enabled]_vars

\* the step is one in which the sync() call of the worker w raises
CycleRaised(w) ==
    /\ last'.vault = w
    /\ last'.op = "sync"
    /\ last'.result.error # None
    /\ worker'[w] # worker[w]

\* C15: whenever the sync() call of a worker raises, whatever the error and
\* however many cycles of it have raised before, the lock is released and the
\* thread goes to sleep for sync_interval, as after a cycle that returned; a
\* sleeping thread can wake, and wakes only into the wait for the lock, which
\* it can take as soon as it is free.
C15_FailedCycleGoesOn ==
    [][\A w \in Workers :
         /\ CycleRaised(w) =>
              /\ sync_lock' = None
              /\ worker'[w].pc = "sleep"
              /\ worker'[w].wait = config[VaultOf(w)].sync_interval
         /\ worker[w].pc = "sleep" =>
              /\ ENABLED sync_worker_wake(w)
              /\ worker'[w].pc \in {"sleep", "wait"}
         /\ (worker[w].pc = "wait" /\ sync_lock = None) =>
              ENABLED sync_worker_acquire(w)
         /\ worker[w].pc # "off" => worker'[w].pc # "off"]_vars

\* C15 happens: a worker of which a cycle has raised is in sync() again.
C15_Witness ==
    \E w \in Workers :
        /\ worker[w].raised
        /\ worker[w].pc = "cycle"
        /\ sync[w].pc = "run"
        /\ sync_lock = w

\* C18: enabled is a Boolean; a configure call that returns leaves the
\* coordinator enabled with the provider and the settings it was given, in
\* memory and in sync_config.json; disable leaves it not enabled, provider and
\* settings as they were; and no step of any other operation (sync(), a step of
\* a worker, start_sync_thread, the vault's calls) changes enabled, provider or
\* settings, in memory or in sync_config.json.
C18_TwoStates ==
    [][\A v \in Vaults :
         /\ config[v].enabled \in BOOLEAN
         /\ \A provider \in Providers, settings \in SettingsChoices :
              (configure(v, provider, settings) /\ last'.result.error = None)
              => /\ config'[v].enabled
                 /\ config'[v].provider = provider
                 /\ config'[v].settings = settings
                 /\ saved'[v] = json_dump(config'[v])
         /\ disable(v)
              => /\ ~config'[v].enabled
                 /\ config'[v].provider = config[v].provider
                 /\ config'[v].settings = config[v].settings
                 /\ saved'[v] = json_dump(config'[v])
         /\ last'.op \notin {"configure", "disable"}
              => /\ config'[v].enabled = config[v].enabled
                 /\ config'[v].provider = config[v].provider
                 /\ config'[v].settings = config[v].settings
                 /\ saved'[v].enabled = saved[v].enabled
                 /\ saved'[v].provider = saved[v].provider
                 /\ saved'[v].settings = saved[v].settings]_vars

\* C18 happens: a cycle of a worker has run to its end after disable, and the
\* coordinator is still not enabled, with the settings configure gave it.
C18_Witness ==
    /\ last.op = "stamp"
    /\ ~config["A"].enabled
    /\ config["A"].settings = [sync_dir |-> "D"]
    /\ config["A"].last_sync # None
    /\ saved["A"] = json_dump(config["A"])

\* the step is an encrypt_file call on a path that does not exist
EncryptOfMissing ==
    /\ nenc' = nenc + 1
    /\ last'.op = "encrypt"
    /\ last'.args.file_path \notin DOMAIN fs

\* C16: encrypt_file on a path that does not exist raises FileNotFoundError,
\* whatever the password, and leaves the blobs, the metadata records and the
\* user files as they were.
C16_EncryptMissingPath ==
    [][EncryptOfMissing =>
         /\ last'.result = Raises("FileNotFoundError")
         /\ files' = files
         /\ metadata' = metadata
         /\ fs' = fs]_vars

\* C16 happens: in a vault that holds a pair, encrypt_file was called on a path
\* that does not exist, and raised.
C16_Witness ==
    /\ last.op = "encrypt"
    /\ last.args.file_path = <<"a", "g">>
    /\ <<"a", "g">> \notin DOMAIN fs
    /\ last.result = Raises("FileNotFoundError")
    /\ DOMAIN files["A"] # {}
    /\ DOMAIN files["A"] = DOMAIN metadata["A"]

\* the step is a decrypt_file or a delete_file call on an id whose blob or
\* whose metadata record (or both) is not in the vault
CallOnHalf ==
    /\ ncalls' = ncalls + 1
    /\ last'.op \in {"decrypt", "delete"}
    /\ \/ last'.id \notin DOMAIN files[last'.vault]
       \/ last'.id \notin DOMAIN metadata[last'.vault]

\* C17: decrypt_file and delete_file on an id whose blob or whose metadata
\* record is absent raise FileNotFoundError and change nothing: the half that
\* is there stays.
C17_NotFoundOnHalf ==
    [][CallOnHalf =>
         /\ last'.result = Raises("FileNotFoundError")
         /\ files' = files
         /\ metadata' = metadata
         /\ fs' = fs]_vars

\* C17 happens: delete_file was called on an id with a blob and no metadata
\* record, raised FileNotFoundError, and the blob is still there.
C17_Witness ==
    /\ last.op = "delete"
    /\ last.result = Raises("FileNotFoundError")
    /\ last.id \in DOMAIN files[last.vault]
    /\ last.id \notin DOMAIN metadata[last.vault]

\* the step is a decrypt_file call that finds the blob and the metadata file
\* of its id, or a list_files call, and the metadata text it loads is not
\* well formed
LoadOfBadText ==
    /\ ncalls' = ncalls + 1
    /\ \/ /\ last'.op = "decrypt"
          /\ last'.id \in DOMAIN files[last'.vault]
          /\ last'.id \in DOMAIN metadata[last'.vault]
          /\ ~WellFormed(metadata[last'.vault][last'.id])
       \/ /\ last'.op = "list"
          /\ \E x \in DOMAIN metadata[last'.vault] :
                ~WellFormed(metadata[last'.vault][x])

\* C19, as claimed: decrypt_file and list_files loading a metadata text that is
\* not well formed raise CorruptMetadata, and nothing else happens: no user
\* file, no blob and no metadata record changes (the text is not executed).
C19_AsClaimed ==
    [][LoadOfBadText =>
         /\ last'.result = Raises("CorruptMetadata")
         /\ fs' = fs
         /\ files' = files
         /\ metadata' = metadata]_vars

\* the last step was an encrypt_file call that returned
EncryptJustReturned ==
    /\ last.op = "encrypt"
    /\ last.result.error = None

\* C20: when encrypt_file(path, P) has returned id, the metadata record under
\* id has original_path = path, original_filename = the base name of path,
\* size = the number of bytes of the file at path (the bytes the blob
\* encrypts), a timestamp that is a reading of the clock, and as salt the
\* base64 of the salt from which, with P, the key of the blob under id was
\* derived.
C20_MetadataFields ==
    EncryptJustReturned =>
        LET v == last.vault
            path == last.args.file_path
            record == Eval(metadata[v][last.result.value])
            blob == files[v][last.result.value]
        IN /\ DOMAIN record = {"original_path", "original_filename", "timestamp",
                               "salt", "size"}
           /\ record.original_path = path
           /\ record.original_filename = Basename(path)
           /\ record.size = Len(fs[path])
           /\ record.size = Len(blob.data)
           /\ record.timestamp \in Times
           /\ blob.key = generate_key(last.args.password, B64Decode(record.salt))

\* C20 happens: encrypt_file of the two-byte file has returned, over a record
\* that an earlier call had stored under the same id, and the record is that of
\* the two-byte file.
C20_Witness ==
    /\ EncryptJustReturned
    /\ last.args.file_path = <<"b", "f">>
    /\ Len(hist.returned["A"]) = 2
    /\ hist.returned["A"][1].id = last.id
    /\ hist.returned["A"][1].path = <<"a", "f">>
    /\ Eval(metadata["A"][last.id]).size = 2
    /\ Eval(metadata["A"][last.id]).original_path = <<"b", "f">>

\* the partial maps f and g agree at x: both lack it, or both hold the same
SameAt(f, g, x) ==
    /\ x \in DOMAIN f <=> x \in DOMAIN g
    /\ x \in DOMAIN f => f[x] = g[x]

\* C21: an id that a sync() call found in its local listing and in its remote
\* listing is in neither of its transfer lists, no step of the call transfers
\* it, and every step of the call leaves its local blob, its local metadata,
\* its remote blob and its remote metadata as they were, whether or not the
\* local and the remote content are the same.
C21_BothSidesUntouched ==
    [][\A v \in Vaults :
         SyncStepOf(v) =>
            \A x \in sync'[v].local_files \cap sync'[v].remote_files :
                /\ x \notin sync'[v].files_to_upload
                /\ x \notin sync'[v].files_to_download
                /\ last'.op \in {"upload", "download"} => last'.id # x
                /\ SameAt(files[v], files'[v], x)
                /\ SameAt(metadata[v], metadata'[v], x)
                /\ SameAt(remoteFiles, remoteFiles', x)
                /\ SameAt(remoteMeta, remoteMeta', x)]_vars

\* C21 happens: a sync() has returned in a vault that holds, under an id the
\* mirror holds too, a blob and a metadata record that are not the mirror's.
C21_Witness ==
    \E v \in Vaults :
        /\ SyncReturned(v)
        /\ \E x \in sync[v].local_files \cap sync[v].remote_files :
              /\ x \in DOMAIN files[v] /\ x \in DOMAIN remoteFiles
              /\ x \in DOMAIN metadata[v] /\ x \in DOMAIN remoteMeta
              /\ files[v][x] # remoteFiles[x]
              /\ metadata[v][x] # remoteMeta[x]

\* C22, as claimed: a sync() call of a coordinator whose provider has no
\* mirror directory to list fails at the listing: it never gets as far as its
\* diff with the remote listing taken as empty, and it never returns stats.
C22_AsClaimed ==
    \A v \in Vaults :
        sync[v].settings.sync_dir = None
        => (sync[v].pc # "run" /\ ~SyncReturned(v))

\* the threads that start_sync_thread has made for the coordinator of v
Started(v) == {w \in Workers : VaultOf(w) = v /\ worker[w].pc # "off"}

\* C23, as claimed: a coordinator never has two periodic sync threads,
\* however many times start_sync_thread is called while it is enabled.
C23_AsClaimed == \A v \in Vaults : Cardinality(Started(v)) <= 1

\* C24: a coordinator constructed on a vault without sync_config.json is not
\* enabled, with provider local, no settings, no last_sync and sync_interval
\* 60, and sync_config.json then holds these; at all times afterwards, whatever
\* configure and disable calls were made, the document in sync_config.json
\* reads back as the configuration in memory; and a coordinator constructed
\* again on the vault has the enabled, provider and settings of the one before.
C24_ConfigPersisted ==
    /\ \A v \in Vaults :
          /\ config[v] = [enabled |-> FALSE, provider |-> "local",
                          settings |-> NoSettings, last_sync |-> None,
                          sync_interval |-> 60]
          /\ json_load(saved[v]) = config[v]
    /\ [](\A v \in Vaults : json_load(saved[v]) = config[v])
    /\ [][\A v \in Vaults :
            load_config(v)
            => /\ config'[v].enabled = config[v].enabled
               /\ config'[v].provider = config[v].provider
               /\ config'[v].settings = config[v].settings
               /\ saved' = saved]_vars

\* C24 happens: a coordinator has been constructed again on a vault whose
\* coordinator had been configured and then disabled.
C24_Witness ==
    /\ last.op = "load"
    /\ ~config["A"].enabled
    /\ config["A"].settings = [sync_dir |-> "D"]
    /\ saved["A"].enabled = "false"

\* C25, as claimed: when a sync() of a vault with a mirror directory returns,
\* every id whose blob the mirror listed when the call began has its metadata
\* record in the mirror: a remote blob without metadata does not outlast a
\* cycle that succeeds.
C25_AsClaimed ==
    \A v \in Vaults :
        (SyncReturned(v) /\ sync[v].settings.sync_dir # None)
        => \A x \in sync[v].remote_files : x \in DOMAIN remoteMeta

\* C26: last_sync changes, in memory or in sync_config.json, only in the step
\* of a worker that holds the lock and whose sync() call has returned, and the
\* two change together; a worker comes to that step only by a sync() call of
\* its own that returned without error; a cycle that raises, a sync() called
\* by the foreground thread, configure, disable and every other step leave
\* last_sync as it was.
C26_LastSyncOnlyByCycle ==
    [][\A v \in Vaults :
         /\ (\/ config'[v].last_sync # config[v].last_sync
             \/ saved'[v].last_sync # saved[v].last_sync)
            => \E w \in Workers :
                  /\ VaultOf(w) = v
                  /\ last'.op = "stamp" /\ last'.vault = w
                  /\ worker[w].pc = "stamp"
                  /\ sync_lock = w
                  /\ sync[w].pc = "idle"
                  /\ sync[w].uploaded = sync[w].files_to_upload
                  /\ sync[w].downloaded = sync[w].files_to_download
                  /\ saved'[v] = json_dump(config'[v])
         /\ \A w \in Workers :
               /\ (worker[w].pc # "stamp" /\ worker'[w].pc = "stamp")
                  => /\ last'.op = "sync" /\ last'.vault = w
                     /\ last'.result.error = None
                     /\ sync_lock' = w
               /\ (worker[w].pc = "stamp" /\ worker'[w].pc # "stamp")
                  => last'.op = "stamp" /\ last'.vault = w
               /\ CycleRaised(w) => worker'[w].pc = "sleep"
         /\ last'.op \in {"sync", "begin", "upload", "download", "configure",
                          "disable", "load", "start"}
            => /\ config'[v].last_sync = config[v].last_sync
               /\ saved'[v].last_sync = saved[v].last_sync]_vars

\* C26 happens: a worker whose earlier cycle raised has recorded last_sync
\* after a cycle that returned.
C26_Witness ==
    \E w \in Workers :
        /\ last.op = "stamp" /\ last.vault = w
        /\ worker[w].raised
        /\ worker[w].pc = "sleep"
        /\ sync_lock = None
        /\ config["A"].last_sync \in Epochs
        /\ saved["A"].last_sync = config["A"].last_sync

\* C27: in a sync() call no upload follows a download and no download comes
\* before the last upload; transfers happen only while the call is in progress;
\* and the step in which a transfer raises ends the call with the error and no
\* stats, leaves every id transferred earlier in the call where the transfer
\* put it, and, when it is an upload that raises, ends the call with nothing
\* downloaded.
C27_UploadsThenAbort ==
    [][\A v \in Vaults :
         SyncStepOf(v) =>
            /\ last'.op \in {"upload", "download"} => sync[v].pc = "run"
            /\ last'.op = "upload"
               => sync[v].downloaded = {} /\ sync'[v].downloaded = {}
            /\ last'.op = "download"
               => /\ sync[v].uploaded = sync[v].files_to_upload
                  /\ sync'[v].uploaded = sync[v].files_to_upload
            /\ (last'.op = "sync" /\ last'.result.error # None)
               => /\ sync[v].pc = "run" /\ sync'[v].pc = "idle"
                  /\ last'.result.value = <<>>
                  /\ sync'[v].uploaded = sync[v].uploaded
                  /\ sync'[v].downloaded = sync[v].downloaded
                  /\ \A x \in sync[v].uploaded :
                        /\ x \in DOMAIN remoteFiles' /\ x \in DOMAIN remoteMeta'
                        /\ SameAt(remoteFiles, remoteFiles', x)
                        /\ SameAt(remoteMeta, remoteMeta', x)
                  /\ \A x \in sync[v].downloaded :
                        /\ x \in DOMAIN files'[v] /\ x \in DOMAIN metadata'[v]
                        /\ SameAt(files[v], files'[v], x)
                        /\ SameAt(metadata[v], metadata'[v], x)
                  /\ last'.id \in sync[v].files_to_upload
                     => /\ sync'[v].downloaded = {}
                        /\ UNCHANGED <<files, metadata>>]_vars

\* C27 happens: a sync() that had an id to download has raised in an upload,
\* with nothing downloaded.
C27_Witness ==
    \E v \in Vaults :
        /\ last.op = "sync" /\ last.vault = v
        /\ last.result.error # None
        /\ last.id \in sync[v].files_to_upload
        /\ sync[v].files_to_download # {}
        /\ sync[v].downloaded = {}
        /\ sync[v].files_to_download \cap DOMAIN files[v] = {}

\* C28: configure with a provider name that is not local, s3 or dropbox raises
\* ValueError and leaves the configuration in memory and the document in
\* sync_config.json as they were, enabled included.
C28_UnknownProvider ==
    [][(/\ ncalls' = ncalls + 1
        /\ last'.op = "configure"
        /\ last'.args.provider \notin Providers)
       => /\ last'.result.error = "ValueError"
          /\ config' = config
          /\ saved' = saved]_vars

\* C28 happens: configure with an unknown provider and a mirror directory has
\* raised in a vault whose coordinator is not enabled.
C28_Witness ==
    /\ last.op = "configure"
    /\ last.args.provider \notin Providers
    /\ last.args.settings.sync_dir # None
    /\ last.result.error = "ValueError"
    /\ ~config[last.vault].enabled
    /\ config[last.vault].provider \in Providers
    /\ config[last.vault].settings.sync_dir = None
=============================================================================
